---- MODULE Spec2Model ----
(***************************************************************************)
(* BotBot: the Checker of botbot/checker.py and the ignore-rule parser of  *)
(* botbot/ignore.py, as a state machine.  A Checker walks a directory tree *)
(* into a flat work-list (build_checklist), runs every registered check on *)
(* every work-list item (check_all / check_file) and prints a summary.     *)
(* The loop of tests/test_fileinfo.py over FileInfo's streaming reader is  *)
(* a second, separate state machine (ReaderSpec).                          *)
(*                                                                         *)
(* Strings are sequences of one-character strings, so that os.path.join,   *)
(* str.split and str.strip are computed and not assumed.                   *)
(***************************************************************************)
EXTENDS Naturals, Integers, Sequences, FiniteSets, Bags, TLC

\* Nesting depth of the directory trees that are walked.
MaxDepth == 2
\* Number of calls of the Checker's public methods in one behaviour.
MaxCalls == 2

----------------------------------------------------------------------------
(* Strings and paths *)

Root == <<"r">>

Names == {"a", "b"}

Whitespace == {" ", "\t", "\n"}

\* os.path.join(path, f) for a one-character name f
join(path, f) == path \o <<"/">> \o <<f>>

\* r/a/a/.../a, k levels below the root
RECURSIVE Spine(_)
Spine(k) == IF k = 0 THEN Root ELSE join(Spine(k - 1), "a")

\* The paths a tree may hold: a spine of nested entries named a, and a
\* sibling b of the first one.
Paths == {Spine(k) : k \in 1..MaxDepth} \cup {join(Root, "b")}

Parent(p) == SubSeq(p, 1, Len(p) - 2)

Basename(p) == p[Len(p)]

\* q is p or lies above p
IsPrefix(q, p) == Len(q) <= Len(p) /\ SubSeq(p, 1, Len(q)) = q

----------------------------------------------------------------------------
(* The environment: a file system, one optional faulty path, the ignore    *)
(* file of the home directory.                                             *)

Kinds == {"none", "file", "dir", "lnk_file", "lnk_dir", "lnk_dead"}

LinkKinds == {"lnk_file", "lnk_dir", "lnk_dead"}

\* A directory entry exists only inside a directory (or behind a link to
\* one); b entries are regular files when they exist.
WellFormed(f) ==
    \A p \in Paths :
        /\ (Basename(p) = "b") => f[p] \in {"none", "file", "lnk_file"}
        /\ (f[p] # "none" /\ Parent(p) # Root) => f[Parent(p)] \in {"dir", "lnk_dir"}

FileSystems == {f \in [Paths -> Kinds] : WellFormed(f)}

Errors == {"FileNotFoundError", "PermissionError", "OSError"}

NoFault == [path |-> <<>>, at |-> "none", err |-> "none"]

\* One path whose stat (the FileInfo constructor) or whose listing fails.
Faults(f) ==
    {NoFault}
    \cup {[path |-> p, at |-> "stat", err |-> e] :
            p \in {q \in Paths : f[q] # "none"}, e \in Errors}
    \cup {[path |-> p, at |-> "listdir", err |-> e] :
            p \in {q \in Paths : f[q] = "dir"},
            e \in {"FileNotFoundError", "PermissionError"}}

NoIgnoreFile == [exists |-> FALSE, lines |-> <<>>]

\* ~/.botbotignore, as the lines that iterating the open file yields
IgnoreFiles ==
    { NoIgnoreFile,
      [exists |-> TRUE,
       lines |-> << <<"r", "/", "a", " ", "#", "x", "\n">> >>],
      [exists |-> TRUE,
       lines |-> << <<" ", "r", "/", "b", "\n">>, <<"#", "r", "/", "a">> >>] }

VARIABLES
    fs,         \* path -> kind of directory entry
    fault,      \* the path on which a system call fails, if any
    descending, \* the order in which os.listdir yields the names
    ignorefile, \* ~/.botbotignore
    checks,     \* Checker.checks
    checklist,  \* Checker.checklist
    probs,      \* Checker.probs
    status,     \* Checker.status: cfiles, files
    phase,      \* position of the running method
    caller,     \* the public method that was called
    reqLink,    \* check_all's parameter link
    link,       \* build_checklist's parameter link
    verbose,    \* check_all's parameter verbose / check_file's status
    ignore,     \* build_checklist's local ignore
    to_add,     \* build_checklist's local to_add
    cand,       \* the value popped from to_add, while the loop body runs
    apath,      \* build_checklist's local apath
    idx,        \* number of work-list items check_all's loop has passed
    exc,        \* the exception that left the method, "none" if none
    bar,        \* what write_status printed last
    summary,    \* what print_summary printed
    called,     \* the public methods called so far, in order
    registered, \* the predicates handed to register so far, with multiplicity
    log,        \* the predicate invocations of the running method
    reader      \* the streaming reader and the loop that consumes it

vars == <<fs, fault, descending, ignorefile, checks, checklist, probs, status,
          phase, caller, reqLink, link, verbose, ignore, to_add, cand, apath, idx, exc,
          bar, summary, called, registered, log, reader>>

env == <<fs, fault, descending, ignorefile>>

----------------------------------------------------------------------------
(* botbot/ignore.py *)

IgnorePath == <<"~", "/", ".", "b", "o", "t", "b", "o", "t", "i", "g", "n", "o", "r", "e">>

None == <<"None">>

\* a plausible slip: the path is returned without the isfile test
find_ignore_file_unchecked == IgnorePath

\* find_ignore_file(): the path of the ignore file if it is a file, else None
find_ignore_file == IF ignorefile.exists THEN IgnorePath ELSE None

\* line.split('#')[0]
RECURSIVE BeforeHash(_)
BeforeHash(line) ==
    IF line = <<>> \/ Head(line) = "#" THEN <<>>
    ELSE <<Head(line)>> \o BeforeHash(Tail(line))

RECURSIVE lstrip(_)
lstrip(s) == IF s # <<>> /\ Head(s) \in Whitespace THEN lstrip(Tail(s)) ELSE s

RECURSIVE rstrip(_)
rstrip(s) ==
    IF s # <<>> /\ s[Len(s)] \in Whitespace THEN rstrip(SubSeq(s, 1, Len(s) - 1)) ELSE s

\* str.strip()
strip(s) == rstrip(lstrip(s))

\* a plausible slip: the comment is cut off but the line is left untrimmed
strip_comments_untrimmed(line) == BeforeHash(line)

strip_comments(line) == strip(BeforeHash(line))

\* open(path, mode='r'): the exception it raises, or the lines of the file
open(path) ==
    IF path = IgnorePath /\ ignorefile.exists
    THEN [raised |-> "none", lines |-> ignorefile.lines]
    ELSE [raised |-> "FileNotFoundError", lines |-> <<>>]

\* parse_ignore_rules(path): one entry per line of the file, none for None
parse_ignore_rules(path) ==
    IF path # None
    THEN LET f == open(path)
         IN  [raised |-> f.raised,
              rules |-> [i \in 1..Len(f.lines) |-> strip_comments(f.lines[i])]]
    ELSE [raised |-> "none", rules |-> <<>>]

\* x in lst
In(x, lst) == \E i \in 1..Len(lst) : lst[i] = x

----------------------------------------------------------------------------
(* The operating system calls the Checker makes *)

islink(path) == path \in Paths /\ fs[path] \in LinkKinds

abspath(path) == path

\* the path with the first symbolic link on it resolved; a link's target
\* lies outside the tree, under t
realpath(path) ==
    LET through == {q \in Paths : IsPrefix(q, path) /\ fs[q] \in LinkKinds}
    IN  IF through = {} THEN path
        ELSE LET q == CHOOSE x \in through : \A y \in through : Len(x) <= Len(y)
             IN  <<"t">> \o SubSeq(path, Len(q) + 1, Len(path))

\* os.listdir(path): the exception it raises, or the names in the order the
\* file system yields them
listdir(path) ==
    IF fault.path = path /\ fault.at = "listdir"
    THEN [raised |-> fault.err, names |-> <<>>]
    ELSE LET has(f) == join(path, f) \in Paths /\ fs[join(path, f)] # "none"
             order == IF descending THEN <<"b", "a">> ELSE <<"a", "b">>
         IN  [raised |-> "none", names |-> SelectSeq(order, has)]

\* os.lstat(path): the exception it raises, "none" if it returns
lstat(path) ==
    IF fault.path = path /\ (fault.at = "stat" \/ fault.err = "FileNotFoundError")
    THEN fault.err
    ELSE "none"

\* a plausible slip: the return is left out, and the function yields None
is_link_without_return(path) == FALSE

\* is_link(path)
is_link(path) == islink(path) \/ abspath(path) # realpath(path)

----------------------------------------------------------------------------
(* botbot/fileinfo.py, botbot/problist.py and the check predicates *)

Unbound == [bound |-> FALSE, path |-> <<>>, mode |-> "none"]

\* st_mode of the entry itself (lstat) or of what it points to (stat)
ModeOf(path, follow) ==
    LET k == fs[path]
    IN  CASE k = "dir" -> "S_IFDIR"
          [] k = "file" -> "S_IFREG"
          [] k = "lnk_dir" -> IF follow THEN "S_IFDIR" ELSE "S_IFLNK"
          [] k = "lnk_file" -> IF follow THEN "S_IFREG" ELSE "S_IFLNK"
          [] OTHER -> "S_IFLNK"

\* FileInfo(path, link=lnk): stats the path eagerly; the exception raised, or
\* the object with its path and mode
FileInfo(path, lnk) ==
    IF fault.path = path /\ fault.at = "stat"
    THEN [raised |-> fault.err, info |-> Unbound]
    ELSE IF lnk /\ fs[path] = "lnk_dead"
    THEN [raised |-> "FileNotFoundError", info |-> Unbound]
    ELSE [raised |-> "none",
          info |-> [bound |-> TRUE, path |-> path, mode |-> ModeOf(path, lnk)]]

S_ISDIR(mode) == mode = "S_IFDIR"

\* a plausible slip: every problem is appended as an entry of its own
add_problem_appended(pl, file, code) == Append(pl, [file |-> file.path, codes |-> {code}])

\* ProblemList.add_problem(file, code): files in the order of their first
\* problem, each with the set of its codes
add_problem(pl, file, code) ==
    IF \E i \in 1..Len(pl) : pl[i].file = file.path
    THEN [i \in 1..Len(pl) |->
            IF pl[i].file = file.path
            THEN [pl[i] EXCEPT !.codes = @ \cup {code}]
            ELSE pl[i]]
    ELSE Append(pl, [file |-> file.path, codes |-> {code}])

RECURSIVE probcount(_)
probcount(pl) ==
    IF pl = <<>> THEN 0 ELSE Cardinality(Head(pl).codes) + probcount(Tail(pl))

CheckFns == {"chk_any", "chk_b"}

\* check(finfo) of a registered predicate: the exception it raises, or the
\* problem code or None it returns.  chk_b reads the file, and a file below
\* the first level cannot be read.
check(fn, finfo) ==
    CASE fn = "chk_any" -> [raised |-> "none", prob |-> "PROB_FILE_NOT_GRPRD"]
      [] fn = "chk_b" ->
            IF Len(finfo.path) > Len(join(Root, "b"))
            THEN [raised |-> "CheckError", prob |-> "None"]
            ELSE IF Basename(finfo.path) = "b"
            THEN [raised |-> "none", prob |-> "PROB_FILE_IS_FASTQ"]
            ELSE [raised |-> "none", prob |-> "None"]

\* FileInfo's streaming reader reads this many bytes at a time
ChunkSize == 128

\* the longest input of test_reader_reads_correct_number_of_bytes
MaxBytes == 1023

\* no stream is being read
NoReader == [size |-> 0, pos |-> 0, tb |-> 0, done |-> TRUE]

\* io.BytesIO.read(n) on a stream of size bytes at position pos: the number
\* of bytes returned
read(size, pos, n) == IF size - pos < n THEN size - pos ELSE n

\* a plausible slip: only full chunks are yielded
reader_full_chunks_only(size, pos) ==
    LET n == read(size, pos, ChunkSize)
    IN  IF n = ChunkSize THEN n ELSE 0

\* _reader(fo): the length of the chunk yielded next, 0 when the generator
\* is exhausted
_reader(size, pos) == read(size, pos, ChunkSize)

----------------------------------------------------------------------------
(* botbot/checker.py: Checker *)

NoBar == [shown |-> FALSE, filllen |-> 0, dashes |-> 0]

NoSummary == [printed |-> FALSE, problems |-> 0, files |-> 0]

\* Checker.__init__ on some file system
Init ==
    /\ fs \in FileSystems
    /\ fault \in Faults(fs)
    /\ descending \in
         IF \A f \in Names : fs[join(Root, f)] # "none" THEN BOOLEAN ELSE {FALSE}
    /\ ignorefile \in IgnoreFiles
    /\ checks = EmptyBag
    /\ checklist = <<>>
    /\ probs = <<>>
    /\ status = [cfiles |-> 0, files |-> 0]
    /\ phase = "Idle"
    /\ caller = "none"
    /\ reqLink = FALSE
    /\ link = FALSE
    /\ verbose = FALSE
    /\ ignore = <<>>
    /\ to_add = <<>>
    /\ cand = <<>>
    /\ apath = Unbound
    /\ idx = 0
    /\ exc = "none"
    /\ bar = NoBar
    /\ summary = NoSummary
    /\ called = <<>>
    /\ registered = EmptyBag
    /\ log = EmptyBag
    /\ reader = NoReader

\* what register() may be given: one callable, or a list of callables
RegisterArgs ==
    {[callable |-> TRUE, fns |-> <<f>>] : f \in CheckFns}
    \cup {[callable |-> FALSE, fns |-> <<f, g>>] : f, g \in CheckFns}

\* a plausible slip: checks is a list, and every registration is appended
list_append(s, f) == s (+) SetToBag({f})

\* self.checks.add(f): checks is a set, held as a bag in which no element
\* has more than one copy
set_add(s, f) == IF BagIn(f, s) THEN s ELSE s (+) SetToBag({f})

\* for f in list(func): self.checks.add(f)
RECURSIVE add_each(_, _)
add_each(s, fns) ==
    IF fns = <<>> THEN s ELSE add_each(set_add(s, Head(fns)), Tail(fns))

\* the multiset of the elements of a sequence
SeqToBag(q) ==
    [e \in {q[i] : i \in 1..Len(q)} |-> Cardinality({i \in 1..Len(q) : q[i] = e})]

\* register(func)
Register(func) ==
    /\ phase = "Idle"
    /\ Len(called) < MaxCalls
    /\ called' = Append(called, "register")
    /\ checks' = IF func.callable THEN set_add(checks, func.fns[1])
                  ELSE add_each(checks, func.fns)
    /\ registered' = registered (+) SeqToBag(func.fns)
    /\ UNCHANGED <<log, reader, reqLink, env, checklist, probs, status, phase, caller, link, verbose,
                   ignore, to_add, cand, apath, idx, exc, bar, summary>>

\* an exception leaves the running method
Raise(e) ==
    /\ phase' = "Returned"
    /\ exc' = e

\* build_checklist(path, link=lnk), up to the loop
BuildStart(path, lnk) ==
    /\ link' = lnk
    /\ LET parsed == parse_ignore_rules(find_ignore_file)
       IN  IF parsed.raised # "none"
           THEN /\ Raise(parsed.raised)
                /\ UNCHANGED <<ignore, to_add>>
           ELSE /\ ignore' = parsed.rules
                /\ to_add' = LET names == listdir(path).names
                             IN  [i \in 1..Len(names) |-> join(path, names[i])]
                /\ phase' = "BuildingList"
                /\ UNCHANGED exc

\* a call of build_checklist(Root, link=lnk)
BuildChecklistCall(lnk) ==
    /\ phase = "Idle"
    /\ Len(called) < MaxCalls
    /\ called' = Append(called, "build_checklist")
    /\ caller' = "build_checklist"
    /\ BuildStart(Root, lnk)
    /\ UNCHANGED <<registered, log, reader, reqLink, env, checks, checklist, probs,
                   status, verbose, cand, apath, idx, bar, summary>>

\* a call of check_all(Root, link=lnk, verbose=verb): it calls
\* build_checklist(path), which leaves link at its default
CheckAllCall(lnk, verb) ==
    /\ phase = "Idle"
    /\ Len(called) < MaxCalls
    /\ called' = Append(called, "check_all")
    /\ caller' = "check_all"
    /\ reqLink' = lnk
    /\ verbose' = verb
    /\ BuildStart(Root, FALSE)
    /\ UNCHANGED <<registered, log, reader, env, checks, checklist, probs, status,
                   cand, apath, idx, bar, summary>>

\* a plausible slip: the loop stops with one candidate left
pending_more_than_one(q) == Len(q) > 1

\* len(to_add) > 0
pending(q) == Len(q) > 0

\* the loop test and to_add.pop()
BuildPop ==
    /\ phase = "BuildingList"
    /\ cand = <<>>
    /\ pending(to_add)
    /\ cand' = to_add[Len(to_add)]
    /\ to_add' = SubSeq(to_add, 1, Len(to_add) - 1)
    /\ UNCHANGED <<registered, log, reader, reqLink, env, checks, checklist, probs, status, phase, caller, link,
                   verbose, ignore, apath, idx, exc, bar, summary, called>>

\* the except clauses of the loop, entered with exception e while the local
\* apath holds ap
Except(e, ap) ==
    IF ~ap.bound
    THEN Raise("UnboundLocalError") /\ UNCHANGED probs
    ELSE CASE e = "FileNotFoundError" ->
                IF lstat(ap.path) # "none"
                THEN Raise(lstat(ap.path)) /\ UNCHANGED probs
                ELSE /\ probs' = add_problem(probs, ap, "PROB_BROKEN_LINK")
                     /\ UNCHANGED <<phase, exc>>
           [] e = "PermissionError" ->
                /\ probs' = add_problem(probs, ap, "PROB_DIR_NOT_WRITABLE")
                /\ UNCHANGED <<phase, exc>>
           [] OTHER ->
                /\ probs' = add_problem(probs, ap, "PROB_UNKNOWN_ERROR")
                /\ UNCHANGED <<phase, exc>>

\* if not link: continue
SkipsLink(lnk) == ~lnk

\* one pass through the body of the while loop, for the popped candidate
BuildBody ==
    /\ phase = "BuildingList"
    /\ cand # <<>>
    /\ cand' = <<>>
    /\ LET made == FileInfo(cand, link)
           ap == made.info
       IN  IF made.raised # "none"
           THEN /\ Except(made.raised, apath)
                /\ UNCHANGED <<apath, to_add, checklist>>
           ELSE /\ apath' = ap
                /\ IF In(ap.path, ignore)
                   THEN UNCHANGED <<to_add, checklist, probs, phase, exc>>
                   ELSE IF is_link(ap.path)
                   THEN /\ to_add' = IF SkipsLink(link) THEN to_add
                                     ELSE Append(to_add, ap.path)
                        /\ UNCHANGED <<checklist, probs, phase, exc>>
                   ELSE IF S_ISDIR(ap.mode)
                   THEN LET ls == listdir(ap.path)
                        IN  IF ls.raised # "none"
                            THEN /\ Except(ls.raised, ap)
                                 /\ UNCHANGED <<to_add, checklist>>
                            ELSE /\ to_add' = to_add \o
                                      [i \in 1..Len(ls.names) |->
                                         join(ap.path, ls.names[i])]
                                 /\ UNCHANGED <<checklist, probs, phase, exc>>
                   ELSE /\ checklist' = Append(checklist, ap)
                        /\ UNCHANGED <<to_add, probs, phase, exc>>
    /\ UNCHANGED <<registered, log, reader, reqLink, env, checks, status, caller, link, verbose, ignore, idx, bar,
                   summary, called>>

\* the loop has ended: the count is stored, and check_all goes on
BuildEnd ==
    /\ phase = "BuildingList"
    /\ cand = <<>>
    /\ ~pending(to_add)
    /\ status' = [status EXCEPT !.files = Len(checklist)]
    /\ phase' = IF caller = "check_all" THEN "Scanning" ELSE "Returned"
    /\ UNCHANGED <<registered, log, reader, reqLink, env, checks, checklist, probs, caller, link, verbose, ignore,
                   to_add, cand, apath, idx, exc, bar, summary, called>>

\* the orders in which a for loop may visit the elements of the set cs
RECURSIVE Iterations(_)
Iterations(cs) ==
    IF BagToSet(cs) = {} THEN {<<>>}
    ELSE UNION {{<<f>> \o rest : rest \in Iterations(cs (-) SetToBag({f}))} :
                  f \in BagToSet(cs)}

\* for check in self.checks, visited in the order fns: the problems after
\* the loop, the checks it invoked and the exception that ended it
RECURSIVE RunChecks(_, _, _)
RunChecks(pl, finfo, fns) ==
    IF fns = <<>> THEN [probs |-> pl, ran |-> <<>>, raised |-> "none"]
    ELSE LET res == check(Head(fns), finfo)
         IN  IF res.raised # "none"
             THEN [probs |-> pl, ran |-> <<Head(fns)>>, raised |-> res.raised]
             ELSE LET rest == RunChecks(IF res.prob # "None"
                                        THEN add_problem(pl, finfo, res.prob)
                                        ELSE pl,
                                        finfo, Tail(fns))
                  IN  [rest EXCEPT !.ran = <<Head(fns)>> \o @]

\* math.ceil(done / total * barlen)
Ceil(done, total, barlen) == (done * barlen + total - 1) \div total

\* write_status(barlen) with the counts done and total: the exception it
\* raises and the bar it prints
write_status(barlen, done, total) ==
    IF total = 0
    THEN [raised |-> "ZeroDivisionError", bar |-> NoBar]
    ELSE LET filllen == Ceil(done, total, barlen)
         IN  [raised |-> "none",
              bar |-> [shown |-> TRUE, filllen |-> filllen,
                       dashes |-> IF barlen > filllen THEN barlen - filllen ELSE 0]]

BarLen == 40

\* check_file(finfo, status=stat) on the work-list item numbered item (0 for
\* a file the caller hands in): every check runs, the count goes up, the
\* progress is written
check_file(finfo, stat, item) ==
    \E order \in Iterations(checks) :
        LET run == RunChecks(probs, finfo, order)
            done == status.cfiles + 1
            ws == IF stat THEN write_status(BarLen, done, status.files)
                  ELSE [raised |-> "none", bar |-> bar]
        IN  /\ probs' = run.probs
            /\ log' = log (+) SeqToBag([i \in 1..Len(run.ran) |->
                          [item |-> item, file |-> finfo.path, fn |-> run.ran[i]]])
            /\ IF run.raised # "none"
               THEN /\ exc' = run.raised
                    /\ UNCHANGED <<status, bar>>
               ELSE /\ status' = [status EXCEPT !.cfiles = done]
                    /\ bar' = ws.bar
                    /\ exc' = ws.raised

\* the files a caller can hand to check_file
Statable == {p \in Paths : fs[p] # "none" /\ FileInfo(p, FALSE).raised = "none"}

\* a call of check_file(FileInfo(path), status=stat)
CheckFileCall(path, stat) ==
    /\ phase = "Idle"
    /\ Len(called) < MaxCalls
    /\ called' = Append(called, "check_file")
    /\ caller' = "check_file"
    /\ verbose' = stat
    /\ check_file(FileInfo(path, FALSE).info, stat, 0)
    /\ phase' = "Returned"
    /\ UNCHANGED <<registered, reader, reqLink, env, checks, checklist, link, ignore, to_add, cand, apath, idx,
                   summary>>

\* for finfo in self.checklist: check_file(finfo, status=verbose)
CheckAllLoop ==
    /\ phase = "Scanning"
    /\ idx < Len(checklist)
    /\ check_file(checklist[idx + 1], verbose, idx + 1)
    /\ idx' = idx + 1
    /\ phase' = IF exc' # "none" THEN "Returned" ELSE "Scanning"
    /\ UNCHANGED <<registered, reader, reqLink, env, checks, checklist, caller, link, verbose, ignore, to_add,
                   cand, apath, summary, called>>

\* the for loop is exhausted
CheckAllEnd ==
    /\ phase = "Scanning"
    /\ idx = Len(checklist)
    /\ phase' = "Summarizing"
    /\ UNCHANGED <<registered, log, reader, reqLink, env, checks, checklist, probs, status, caller, link, verbose,
                   ignore, to_add, cand, apath, idx, exc, bar, summary, called>>

\* print_summary()
PrintSummary ==
    /\ phase = "Summarizing"
    /\ summary' = [printed |-> TRUE, problems |-> probcount(probs),
                   files |-> status.files]
    /\ phase' = "Returned"
    /\ UNCHANGED <<registered, log, reader, reqLink, env, checks, checklist, probs, status, caller, link, verbose,
                   ignore, to_add, cand, apath, idx, exc, bar, called>>

\* the called method has returned or raised; its locals are gone
Return ==
    /\ phase = "Returned"
    /\ phase' = "Idle"
    /\ caller' = "none"
    /\ reqLink' = FALSE
    /\ link' = FALSE
    /\ verbose' = FALSE
    /\ ignore' = <<>>
    /\ to_add' = <<>>
    /\ cand' = <<>>
    /\ apath' = Unbound
    /\ idx' = 0
    /\ exc' = "none"
    /\ bar' = NoBar
    /\ summary' = NoSummary
    /\ log' = EmptyBag
    /\ UNCHANGED <<registered, reader, env, checks, checklist, probs, status, called>>

----------------------------------------------------------------------------
(* tests/test_fileinfo.py: the loop that consumes the streaming reader *)

\* b = io.BytesIO(('a' * i).encode()); tb = 0
ReaderInit ==
    /\ reader \in {[size |-> i, pos |-> 0, tb |-> 0, done |-> FALSE] : i \in 1..MaxBytes}
    /\ fs = [p \in Paths |-> "none"]
    /\ fault = NoFault
    /\ descending = FALSE
    /\ ignorefile = NoIgnoreFile
    /\ checks = EmptyBag
    /\ checklist = <<>>
    /\ probs = <<>>
    /\ status = [cfiles |-> 0, files |-> 0]
    /\ phase = "Idle"
    /\ caller = "none"
    /\ reqLink = FALSE
    /\ link = FALSE
    /\ verbose = FALSE
    /\ ignore = <<>>
    /\ to_add = <<>>
    /\ cand = <<>>
    /\ apath = Unbound
    /\ idx = 0
    /\ exc = "none"
    /\ bar = NoBar
    /\ summary = NoSummary
    /\ called = <<>>
    /\ registered = EmptyBag
    /\ log = EmptyBag

checker == <<fs, fault, descending, ignorefile, checks, checklist, probs, status,
             phase, caller, reqLink, link, verbose, ignore, to_add, cand, apath, idx,
             exc, bar, summary, called, registered, log>>

\* for r in fi._reader(b): tb += len(r)
ReaderYield ==
    /\ ~reader.done
    /\ _reader(reader.size, reader.pos) > 0
    /\ reader' = [reader EXCEPT !.pos = @ + _reader(reader.size, reader.pos),
                                !.tb = @ + _reader(reader.size, reader.pos)]
    /\ UNCHANGED checker

\* the generator is exhausted and the for loop ends
ReaderStop ==
    /\ ~reader.done
    /\ _reader(reader.size, reader.pos) = 0
    /\ reader' = [reader EXCEPT !.done = TRUE]
    /\ UNCHANGED checker

ReaderNext == ReaderYield \/ ReaderStop

\* The for loop of the test takes the next chunk whenever there is one.
ReaderSpec == ReaderInit /\ [][ReaderNext]_vars /\ WF_vars(ReaderNext)

----------------------------------------------------------------------------
(* botbot/checker.py: the calls and steps of a Checker *)

Next ==
    \/ \E func \in RegisterArgs : Register(func)
    \/ \E lnk \in BOOLEAN : BuildChecklistCall(lnk)
    \/ \E lnk \in BOOLEAN, verb \in BOOLEAN : CheckAllCall(lnk, verb)
    \/ \E path \in Statable, stat \in BOOLEAN : CheckFileCall(path, stat)
    \/ BuildPop
    \/ BuildBody
    \/ BuildEnd
    \/ CheckAllLoop
    \/ CheckAllEnd
    \/ PrintSummary
    \/ Return

Spec == Init /\ [][Next]_vars

\* The interpreter runs a started method on: a step that is possible is taken.
FairSpec == Spec /\ WF_vars(Next)

----------------------------------------------------------------------------
(* What the claims speak of, stated on the environment alone *)

\* line holds the path p, trimmed and with its comment cut off
RuleLine(line, p) ==
    \E j \in 1..Len(line) :
        LET k == j + Len(p) - 1
        IN  /\ k <= Len(line)
            /\ SubSeq(line, j, k) = p
            /\ \A i \in 1..(j - 1) : line[i] \in Whitespace
            /\ \E e \in k..Len(line) :
                 /\ \A i \in (k + 1)..e : line[i] \in Whitespace
                 /\ e = Len(line) \/ line[e + 1] = "#"

\* the exact path p is a line of the ignore file
Ignored(p) ==
    /\ ignorefile.exists
    /\ \E i \in 1..Len(ignorefile.lines) : RuleLine(ignorefile.lines[i], p)

\* the entries above p, below the root
Above(p) == {q \in Paths : IsPrefix(q, p) /\ q # p}

\* p lies behind a symbolic link
ViaLink(p) == \E q \in Above(p) : fs[q] \in LinkKinds

\* q is a directory the walk lists
Expanded(q) == fs[q] = "dir" /\ ~Ignored(q) /\ fault.path # q

\* the walk comes to p
Reached(p) == fs[p] # "none" /\ \A q \in Above(p) : Expanded(q)

\* p is a regular file of the tree that no rule excludes and no error hides
Found(p) == Reached(p) /\ fs[p] = "file" /\ ~Ignored(p) /\ fault.path # p

NFound == Cardinality({p \in Paths : Found(p)})

\* number of work-list entries for the path p
Entries(p) == Cardinality({i \in 1..Len(checklist) : checklist[i].path = p})

Building == caller \in {"build_checklist", "check_all"}

\* build_checklist has just returned normally
BuildFinished ==
    \/ phase = "Scanning" /\ idx = 0
    \/ phase = "Returned" /\ caller = "build_checklist" /\ exc = "none"

\* the scan is over: check_all is at its summary, or a direct
\* build_checklist has returned
ScanOver ==
    \/ phase = "Summarizing"
    \/ phase = "Returned" /\ caller = "build_checklist" /\ exc = "none"

\* the (file, code) pairs of the problem list
Problems ==
    UNION {{<<probs[i].file, c>> : c \in probs[i].codes} : i \in 1..Len(probs)}

----------------------------------------------------------------------------
(* The claims *)

\* C1: after build_checklist on the root of a tree that is read without
\* error, the work-list has exactly one entry per regular file that is not
\* ignored and not a symbolic link, N in all, and status['files'] is N.
C1_WalkComplete ==
    (BuildFinished /\ fault = NoFault) =>
        /\ Len(checklist) = NFound
        /\ \A p \in Paths : Found(p) => Entries(p) = 1
        /\ status.files = NFound

\* C2: a file system error on one candidate path never leaves
\* build_checklist as an exception, and once the walk has ended every other
\* regular file is in the work-list.
C2_ErrorsDoNotEscape ==
    /\ Building => exc \in {"none", "CheckError"}
    /\ BuildFinished => \A p \in Paths : Found(p) => Entries(p) >= 1

\* C3: when one path fails with a permission error, the finished scan has
\* recorded exactly one directory-not-writable or unknown-error problem, and
\* has recorded it against the failing path.
C3_ErrorAttributed ==
    LET errs == {pr \in Problems :
                   pr[2] \in {"PROB_DIR_NOT_WRITABLE", "PROB_UNKNOWN_ERROR"}}
        failed == /\ Reached(fault.path)
                  /\ (fault.at = "listdir" => ~Ignored(fault.path))
    IN  (ScanOver /\ fault.err = "PermissionError" /\ failed) =>
            /\ Cardinality(errs) = 1
            /\ \A pr \in errs : pr[1] = fault.path

\* C4: in a walk with link=False no symbolic link and no path behind a
\* symbolic link is in the work-list, and no path behind a symbolic link is
\* pending.
C4_LinksExcluded ==
    (Building /\ ~link) =>
        /\ \A i \in 1..Len(checklist) :
              fs[checklist[i].path] \notin LinkKinds /\ ~ViaLink(checklist[i].path)
        /\ \A i \in 1..Len(to_add) : ~ViaLink(to_add[i])
        /\ cand # <<>> => ~ViaLink(cand)

\* a walk with link=False has passed a link to a directory that holds a
\* file, and has listed the regular file next to it
C4_Witness ==
    /\ BuildFinished /\ ~link
    /\ fs[Spine(1)] = "lnk_dir" /\ fs[Spine(2)] = "file" /\ ~Ignored(Spine(1))
    /\ Len(checklist) = 1 /\ checklist[1].path = join(Root, "b")

\* C5: in a walk with link=True the pass of the loop that takes a symbolic
\* link expands its target as it would a regular path: a link to a file is
\* appended to the work-list, the children of a link to a directory are
\* made pending.
C5_LinkTargetExpanded ==
    [][(phase = "BuildingList" /\ cand # <<>> /\ link
          /\ ~Ignored(cand) /\ fault.path # cand)
       => /\ fs[cand] = "lnk_file" =>
               /\ Len(checklist') = Len(checklist) + 1
               /\ checklist'[Len(checklist')].path = cand
          /\ fs[cand] = "lnk_dir" =>
               \A f \in Names :
                   (join(cand, f) \in Paths /\ fs[join(cand, f)] # "none")
                   => In(join(cand, f), to_add')]_vars

\* C6: every walk ends: build_checklist, once started, leaves its loop.
C6_ScanFinishes ==
    [](phase = "BuildingList" => <>(phase # "BuildingList"))

\* C7: at the end of every check_all of a sequence of check_all calls the work-list holds the files of this
\* scan alone, status['files'] is their number and status['cfiles'] equals
\* status['files'].
C7_ResetPerScan ==
    (phase = "Summarizing" /\ \A i \in 1..Len(called) : called[i] = "check_all") =>
        /\ \A p \in Paths : Entries(p) = IF Found(p) THEN 1 ELSE 0
        /\ status.files = NFound
        /\ status.cfiles = status.files

\* C8: during every check_all of a sequence of check_all calls the processed
\* count is 0 before the first item, goes
\* up by one with each item, and is the length of the work-list when the
\* last item is done.
C8_ProgressCounts ==
    (\A i \in 1..Len(called) : called[i] = "check_all") =>
        /\ phase = "Scanning" => status.cfiles = idx
        /\ phase = "Summarizing" => status.cfiles = Len(checklist)

\* C9: write_status never runs with a total of zero.
C9_NoZeroTotal ==
    /\ exc # "ZeroDivisionError"
    /\ bar.shown => status.files > 0

\* C10: a path that is a line of the ignore file is never in the work-list.
C10_IgnoredExcluded ==
    \A i \in 1..Len(checklist) : ~Ignored(checklist[i].path)

\* a walk with link=True has passed an ignored symbolic link and has listed
\* the regular file next to it
C10_Witness ==
    /\ BuildFinished /\ link
    /\ fs[Spine(1)] \in LinkKinds /\ Ignored(Spine(1))
    /\ Len(checklist) = 1 /\ checklist[1].path = join(Root, "b")

\* C11: when there is no ignore file, find_ignore_file yields None and
\* parse_ignore_rules yields no rule and raises nothing: the walk of a tree
\* that is read without error ends without an exception, its rule list is
\* empty, and every regular file it comes to is in the work-list.
C11_AbsentIgnoreFile ==
    ~ignorefile.exists =>
        /\ (Building /\ fault = NoFault /\ ~link) => exc \in {"none", "CheckError"}
        /\ phase = "BuildingList" => ignore = <<>>
        /\ BuildFinished =>
              \A p \in Paths :
                  (Reached(p) /\ fs[p] = "file" /\ fault.path # p) => Entries(p) >= 1

\* a walk without an ignore file has ended with r/a and r/b in the work-list,
\* the two paths the ignore files of the model name
C11_Witness ==
    /\ ~ignorefile.exists
    /\ BuildFinished
    /\ Entries(join(Root, "a")) = 1
    /\ Entries(join(Root, "b")) = 1

\* the checks that check_file has run to its end on the file of item i
RanOn(i, file) ==
    {f \in CheckFns : CopiesIn([item |-> i, file |-> file, fn |-> f], log) > 0}

\* C12: however often a predicate has been handed to register, alone or in
\* a list, checks holds it once, no check_file invokes it twice on one file,
\* and a check_file that runs to its end has invoked it exactly once.
C12_RegisterIdempotent ==
    /\ \A f \in CheckFns : CopiesIn(f, checks) = IF BagIn(f, registered) THEN 1 ELSE 0
    /\ \A e \in BagToSet(log) : CopiesIn(e, log) = 1
    /\ (caller = "check_file" /\ phase = "Returned" /\ exc # "CheckError") =>
          \E p \in Paths : RanOn(0, p) = BagToSet(registered)
    /\ caller = "check_all" =>
          \A i \in 1..(IF exc = "CheckError" THEN idx - 1 ELSE idx) :
              RanOn(i, checklist[i].path) = BagToSet(registered)

\* one register call was given a list that names chk_any twice, and the
\* check_file that followed has invoked chk_any once
C12_Witness ==
    /\ called = <<"register", "check_file">>
    /\ phase = "Returned"
    /\ exc = "none"
    /\ CopiesIn("chk_any", registered) = 2
    /\ \E p \in Paths : CopiesIn([item |-> 0, file |-> p, fn |-> "chk_any"], log) = 1

\* a predicate has raised on the work-list item i
FailedOn(i) ==
    \E f \in RanOn(i, checklist[i].path) : check(f, checklist[i]).raised # "none"

\* C13: when a predicate raises on a work-list item during check_all, every
\* registered predicate is still run on that item, and check_all does not
\* return before every item has been checked and the summary is printed.
C13_PredicatesIndependent ==
    caller = "check_all" =>
        \A i \in 1..Len(checklist) :
            (i <= idx /\ FailedOn(i)) =>
                /\ RanOn(i, checklist[i].path) = BagToSet(checks)
                /\ phase = "Returned" => (summary.printed /\ idx = Len(checklist))

\* C14: whatever has been scanned, and however often, the problem list has
\* one entry per file, and the number of problems it counts and the summary
\* prints is the number of distinct (file, code) pairs in it.
C14_ProblemsDistinct ==
    /\ \A i, j \in 1..Len(probs) : probs[i].file = probs[j].file => i = j
    /\ probcount(probs) = Cardinality(Problems)
    /\ summary.printed => summary.problems = Cardinality(Problems)

\* two walks have each failed to list the directory r/a, and the problem
\* list holds the one pair they both recorded
C14_Witness ==
    /\ called = <<"build_checklist", "build_checklist">>
    /\ BuildFinished
    /\ fault = [path |-> join(Root, "a"), at |-> "listdir", err |-> "PermissionError"]
    /\ probs = <<[file |-> join(Root, "a"), codes |-> {"PROB_DIR_NOT_WRITABLE"}]>>

\* C15: for every input of 1 to 1023 bytes the reader comes to its end, and
\* the lengths of the chunks it has yielded then add up to the length of the
\* input.
C15_ReaderLossless ==
    /\ [](reader.done => reader.tb = reader.size)
    /\ <>reader.done

\* an input longer than one chunk, and not a whole number of chunks, has been
\* read to its end
C15_Witness ==
    /\ reader.done
    /\ reader.size > ChunkSize
    /\ reader.size % ChunkSize # 0
    /\ reader.tb = reader.size

\* check_all has built its work-list and has then passed its loop or has
\* been left
CheckAllOver ==
    /\ caller = "check_all"
    /\ \/ phase = "Summarizing"
       \/ phase = "Returned" /\ (summary.printed \/ exc = "CheckError")

\* predicates are registered, and every one of them returns None on the path p
AllNone(p) ==
    /\ BagToSet(checks) # {}
    /\ \A f \in BagToSet(checks) :
          LET res == check(f, [bound |-> TRUE, path |-> p, mode |-> "S_IFREG"])
          IN  res.raised = "none" /\ res.prob = "None"

\* C16: when check_all is over, every registered predicate has been invoked
\* exactly once on every work-list item, every code a predicate returned is
\* in the problem list against that item's path, and a path on which every
\* predicate returns None and which hit no error has no problem-list entry.
C16_ScanCoverage ==
    CheckAllOver =>
        /\ \A i \in 1..Len(checklist) :
              /\ RanOn(i, checklist[i].path) = BagToSet(checks)
              /\ \A f \in BagToSet(checks) :
                    /\ CopiesIn([item |-> i, file |-> checklist[i].path, fn |-> f], log) = 1
                    /\ LET res == check(f, checklist[i])
                       IN  (res.raised = "none" /\ res.prob # "None") =>
                               <<checklist[i].path, res.prob>> \in Problems
        /\ \A p \in Paths :
              (AllNone(p) /\ fault.path # p) => \A pr \in Problems : pr[1] # p

\* the order in which one check_all run passes its phases; an exception
\* leaves the run from the phase it is raised in
PhaseOrder ==
    {<<"Idle", "BuildingList">>, <<"BuildingList", "BuildingList">>,
     <<"BuildingList", "Scanning">>, <<"Scanning", "Scanning">>,
     <<"Scanning", "Summarizing">>, <<"Summarizing", "Returned">>,
     <<"BuildingList", "Returned">>, <<"Scanning", "Returned">>}

\* C17: in a check_all run no predicate is invoked while the work-list is
\* being built, the pending list is empty from the first check on, the
\* work-list is left as it is while and after the items are checked, and the
\* summary is printed only when every item has been checked by every
\* registered predicate; the run passes its phases in their order.
C17_PhaseOrder ==
    /\ [](caller = "check_all" =>
            /\ phase = "BuildingList" => BagToSet(log) = {}
            /\ phase \in {"Scanning", "Summarizing"} => (to_add = <<>> /\ cand = <<>>)
            /\ (phase = "Summarizing" \/ summary.printed) =>
                  /\ idx = Len(checklist)
                  /\ \A i \in 1..Len(checklist) :
                        RanOn(i, checklist[i].path) = BagToSet(checks))
    /\ [][caller' = "check_all" =>
            /\ <<phase, phase'>> \in PhaseOrder
            /\ phase \in {"Scanning", "Summarizing"} => checklist' = checklist]_vars

\* check_all is about to print its summary, after two predicates have been
\* run on each of two work-list items
C17_Witness ==
    /\ caller = "check_all"
    /\ phase = "Summarizing"
    /\ Len(checklist) = 2
    /\ BagToSet(checks) = CheckFns
    /\ BagCardinality(log) = 4

\* the error the file system answers the pass for candidate c with
ErrorOn(c) ==
    IF fault.path = c /\ fault.at = "stat" THEN fault.err
    ELSE IF link /\ fs[c] = "lnk_dead" THEN "FileNotFoundError"
    ELSE IF /\ fault.path = c /\ fault.at = "listdir"
            /\ fs[c] = "dir" /\ ~ViaLink(c) /\ ~Ignored(c)
    THEN fault.err
    ELSE "none"

\* the problem code the claim gives the error e on candidate c
KindOf(e, c) ==
    CASE e = "PermissionError" -> "PROB_DIR_NOT_WRITABLE"
      [] e = "OSError" -> "PROB_UNKNOWN_ERROR"
      [] e = "FileNotFoundError" /\ fs[c] = "lnk_dead" -> "PROB_BROKEN_LINK"
      [] OTHER -> "none"

\* C18: a pass of the loop that meets a not-found error on a dangling
\* symbolic link, a permission error or another OS error records the problem
\* code of that kind, and the loop goes on.
C18_ErrorKindMapped ==
    [][(phase = "BuildingList" /\ cand # <<>> /\ KindOf(ErrorOn(cand), cand) # "none") =>
          /\ phase' = "BuildingList"
          /\ \E i \in 1..Len(probs') : KindOf(ErrorOn(cand), cand) \in probs'[i].codes]_vars

\* C19: the work-list of check_all(path, link=L) is built under the symlink
\* policy L.
C19_PolicyGoverns ==
    (caller = "check_all" /\ phase = "BuildingList") => link = reqLink

\* C20: nothing beneath an ignored path is ever a pending candidate or a
\* work-list item, and an ignored directory that cannot be listed leaves no
\* directory-not-writable problem, for it is never listed.
C20_IgnoredSubtreePruned ==
    /\ \A p \in Paths :
          (\E q \in Above(p) : Ignored(q)) =>
              /\ ~In(p, to_add)
              /\ cand # p
              /\ Entries(p) = 0
    /\ (fault.at = "listdir" /\ fault.err = "PermissionError" /\ Ignored(fault.path)) =>
          \A pr \in Problems : pr[2] # "PROB_DIR_NOT_WRITABLE"

\* a walk has ended that passed the ignored directory r/a, which holds the
\* regular file r/a/a, and has listed only r/b
C20_Witness ==
    /\ BuildFinished
    /\ Ignored(join(Root, "a"))
    /\ fs[join(Root, "a")] = "dir"
    /\ fs[Spine(2)] = "file"
    /\ ~Ignored(Spine(2))
    /\ Len(checklist) = 1
    /\ checklist[1].path = join(Root, "b")

====
